---- MODULE Spec2Model ----
(***************************************************************************)
(* The analysis pipeline of workflow/langgraph_pipeline.py: a graph of     *)
(* four nodes (data_parser -> insight_generator -> visualization ->        *)
(* report_generator -> END) run over one state dict, together with the     *)
(* collaborators agents/data_parser_agent.py and agents/viz_generator.py.  *)
(***************************************************************************)
EXTENDS Integers, Sequences, FiniteSets, TLC

\* ------------------------------------------------------------------ bounds
MaxCols == 2
MaxRuns == 2

\* ------------------------------------------------------- values and names
END == "__end__"
None == "None"
NoStage == ""
NoCause == ""

\* A Python exception as the caller sees it: its class, the stage name a
\* wrapper would tag it with, and the class of the exception it wraps.
Exception(type) == [type |-> type, stage |-> NoStage, cause |-> NoCause]
NoExc == Exception("")

\* AnalysisState: the keys of the state dict
AnalysisState ==
  {"df", "summary", "insights", "visuals", "report_path",
   "output_dir", "use_llm", "groq_api_key", "model_name"}

\* the reference the state dict holds to the caller's dataset object
DfRef == "<df object>"
DefaultModel == "llama-3.1-8b-instant"
PdfName == "data_analysis_report.pdf"

\* ------------------------------------------------------------ the dataset
\* A cell is a string, written as its sequence of characters; NaN is the
\* missing value np.nan.
NaN == <<"NaN">>
ObjCells == {<<"a">>, <<" ", "a", " ">>, <<"n", "a", "n">>, <<" ", "n", "a", "n">>, NaN}
NumCells == {<<"1">>}
NumericDtypes == {"int64", "float64"}
Column ==
  [dtype : NumericDtypes, cell : NumCells] \cup [dtype : {"object"}, cell : ObjCells]

\* one-row tables of up to n columns
Frames(n) == UNION {[1..k -> Column] : k \in 0..n}

\* the files the caller may name, and what the one that exists holds
CsvPath == "data.csv"
MissingPath == "missing.csv"
CsvContent == <<[dtype |-> "int64", cell |-> <<"1">>], [dtype |-> "object", cell |-> <<" ", "a", " ">>]>>

\* what the caller can pass as df: a DataFrame, a path, or something else
Datasets(n) ==
  [kind : {"frame"}, cols : Frames(n), path : {""}]
    \cup [kind : {"path"}, cols : {<<>>}, path : {CsvPath, MissingPath}]
    \cup [kind : {"other"}, cols : {<<>>}, path : {""}]

\* os.path.join
PathJoin(a, b) == IF a = "" THEN b ELSE a \o "/" \o b

\* str.strip(): drop leading and trailing blanks
RECURSIVE LStrip(_)
LStrip(s) == IF s # <<>> /\ Head(s) = " " THEN LStrip(Tail(s)) ELSE s
RECURSIVE RStrip(_)
RStrip(s) ==
  IF s # <<>> /\ s[Len(s)] = " " THEN RStrip(SubSeq(s, 1, Len(s) - 1)) ELSE s
Strip(s) == RStrip(LStrip(s))

\* astype(str): np.nan becomes the string "nan"
AsStr(c) == IF c = NaN THEN <<"n", "a", "n">> ELSE c
\* replace({"nan": np.nan})
ReplaceNan(c) == IF c = <<"n", "a", "n">> THEN NaN ELSE c

\* df[c] = df[c].astype(str).str.strip().replace({"nan": np.nan}) for object columns
CleanColumn(col) ==
  IF col.dtype = "object"
    THEN [col EXCEPT !.cell = ReplaceNan(Strip(AsStr(col.cell)))]
    ELSE col
Clean(cols) == [i \in DOMAIN cols |-> CleanColumn(cols[i])]

\* the summary dict built from the cleaned table
Summarize(cols) ==
  LET n == Len(cols)
      rows == IF n = 0 THEN 0 ELSE 1
      missing == [i \in 1..n |-> IF cols[i].cell = NaN THEN 1 ELSE 0]
  IN [num_rows |-> rows,
      num_columns |-> n,
      columns |-> [i \in 1..n |-> i],
      dtypes |-> [i \in 1..n |-> cols[i].dtype],
      missing_counts |-> missing,
      missing_percentage |-> [i \in 1..n |-> IF rows > 0 THEN (missing[i] * 100) \div rows ELSE 0],
      summary_stats |-> [i \in 1..n |-> [count |-> rows - missing[i]]],
      sample_rows |-> [i \in 1..n |-> cols[i].cell]]

\* --------------------------------------------------------- collaborators
\* Each returns exc (NoExc when it returned normally), the value returned,
\* the caller's dataset object as the call leaves it, and the files on disk
\* as the call leaves them.

\* data_parser_agent with the DataFrame cleaned in place (no .copy())
data_parser_agent_inplace(d, files) ==
  IF d.kind = "frame"
    THEN [exc |-> NoExc, value |-> Summarize(Clean(d.cols)),
          arg |-> [d EXCEPT !.cols = Clean(d.cols)], files |-> files]
    ELSE IF d.kind = "path"
      THEN IF d.path \notin files
             THEN [exc |-> Exception("FileNotFoundError"), value |-> None, arg |-> d, files |-> files]
             ELSE [exc |-> NoExc, value |-> Summarize(Clean(CsvContent)), arg |-> d, files |-> files]
      ELSE [exc |-> Exception("ValueError"), value |-> None, arg |-> d, files |-> files]

\* data_parser_agent with the failed load swallowed: an empty table is summarised
data_parser_agent_swallow(d, files) ==
  IF d.kind = "frame"
    THEN [exc |-> NoExc, value |-> Summarize(Clean(d.cols)), arg |-> d, files |-> files]
    ELSE IF d.kind = "path"
      THEN IF d.path \notin files
             THEN [exc |-> NoExc, value |-> Summarize(<<>>), arg |-> d, files |-> files]
             ELSE [exc |-> NoExc, value |-> Summarize(Clean(CsvContent)), arg |-> d, files |-> files]
      ELSE [exc |-> Exception("ValueError"), value |-> None, arg |-> d, files |-> files]

data_parser_agent(d, files) ==
  IF d.kind = "path"
    THEN IF d.path \notin files
           THEN [exc |-> Exception("FileNotFoundError"), value |-> None, arg |-> d, files |-> files]
           ELSE [exc |-> NoExc, value |-> Summarize(Clean(CsvContent)), arg |-> d, files |-> files]
    ELSE IF d.kind = "frame"
      THEN [exc |-> NoExc, value |-> Summarize(Clean(d.cols)), arg |-> d, files |-> files]
      ELSE [exc |-> Exception("ValueError"), value |-> None, arg |-> d, files |-> files]

\* insight_generator_agent: text from the LLM backend or from rules; fails
\* when the backend is asked for and cannot be reached
insight_generator_agent(d, use_llm, groq_api_key, model_name, backend_up) ==
  IF use_llm /\ ~backend_up
    THEN [exc |-> Exception("ConnectionError"), value |-> None]
    ELSE [exc |-> NoExc,
          value |-> [mode |-> IF use_llm THEN "llm" ELSE "rules",
                     model |-> model_name, key |-> groq_api_key, about |-> d]]

PairplotMaxCols == 5

NumericCols(cols) == {i \in DOMAIN cols : cols[i].dtype \in NumericDtypes}

ChartTitles(cols) ==
  {"correlation_heatmap"}
    \cup {ToString(i) \o "_distribution" : i \in NumericCols(cols)}
    \cup (IF Cardinality(NumericCols(cols)) <= PairplotMaxCols THEN {"pairplot"} ELSE {})

ChartFiles(cols, output_dir, save_images) ==
  IF output_dir = "" THEN {}
  ELSE {output_dir}
         \cup (IF save_images
                 THEN {PathJoin(output_dir, t \o ".png") : t \in ChartTitles(cols)}
                 ELSE {})

\* viz_generator_agent raising when there is no numeric column to plot
viz_generator_agent_raise_empty(d, output_dir, save_images, files) ==
  IF d.kind # "frame"
    THEN [exc |-> Exception("AttributeError"), value |-> None, files |-> files]
    ELSE IF NumericCols(d.cols) = {}
      THEN [exc |-> Exception("ValueError"), value |-> None, files |-> files]
      ELSE [exc |-> NoExc,
            value |-> [message |-> "Visualizations created successfully!",
                       visualizations |-> [t \in ChartTitles(d.cols) |-> "png:" \o t]],
            files |-> files \cup ChartFiles(d.cols, output_dir, save_images)]

\* viz_generator_agent with os.makedirs(output_dir) lacking exist_ok=True
viz_generator_agent_mkdir(d, output_dir, save_images, files) ==
  IF d.kind # "frame"
    THEN [exc |-> Exception("AttributeError"), value |-> None, files |-> files]
    ELSE IF NumericCols(d.cols) = {}
      THEN [exc |-> NoExc,
            value |-> [message |-> "No numeric columns found.", visualizations |-> <<>>],
            files |-> files]
      ELSE IF output_dir # "" /\ output_dir \in files
        THEN [exc |-> Exception("FileExistsError"), value |-> None, files |-> files]
        ELSE [exc |-> NoExc,
              value |-> [message |-> "Visualizations created successfully!",
                         visualizations |-> [t \in ChartTitles(d.cols) |-> "png:" \o t]],
              files |-> files \cup ChartFiles(d.cols, output_dir, save_images)]

viz_generator_agent(d, output_dir, save_images, files) ==
  IF d.kind # "frame"
    \* df.select_dtypes on something that is no DataFrame
    THEN [exc |-> Exception("AttributeError"), value |-> None, files |-> files]
    ELSE IF Cardinality(NumericCols(d.cols)) = 0
      THEN [exc |-> NoExc,
            value |-> [message |-> "No numeric columns found.", visualizations |-> <<>>],
            files |-> files]
      ELSE [exc |-> NoExc,
            value |-> [message |-> "Visualizations created successfully!",
                       visualizations |-> [t \in ChartTitles(d.cols) |-> "png:" \o t]],
            files |-> files \cup ChartFiles(d.cols, output_dir, save_images)]

\* report_generator_agent: writes the document and returns its path, or
\* fails with a rendering / I/O error
report_generator_agent(summary_data, insights_data, viz_data, output_path, pdf_ok, files) ==
  IF ~pdf_ok
    THEN [exc |-> Exception("OSError"), value |-> None, files |-> files]
    ELSE [exc |-> NoExc, value |-> output_path, files |-> files \cup {output_path}]

\* ------------------------------------------------------------- the nodes
\* A node takes the state dict, sets its own key and returns the dict; a
\* mandatory lookup state[k] of an absent key raises KeyError.
Get(state, key, default) == IF key \in DOMAIN state THEN state[key] ELSE default

Raised(state, exc, h, files) == [exc |-> exc, out |-> state, heap |-> h, files |-> files]
Returned(state, h, files) == [exc |-> NoExc, out |-> state, heap |-> h, files |-> files]

\* node_data_parser catching the failure and raising a RuntimeError of its own
node_data_parser_reraise(state, h, files) ==
  IF "df" \notin DOMAIN state
    THEN Raised(state, Exception("KeyError"), h, files)
    ELSE LET r == data_parser_agent(h, files)
         IN IF r.exc # NoExc
              THEN Raised(state, Exception("RuntimeError"), r.arg, r.files)
              ELSE Returned(("summary" :> r.value) @@ state, r.arg, r.files)

node_data_parser(state, h, files) ==
  IF "df" \notin DOMAIN state
    THEN Raised(state, Exception("KeyError"), h, files)
    ELSE LET r == data_parser_agent(h, files)
         IN IF r.exc # NoExc
              THEN Raised(state, r.exc, r.arg, r.files)
              ELSE Returned(("summary" :> r.value) @@ state, r.arg, r.files)

\* node_insight_generator catching the collaborator's failure and going on
node_insight_generator_swallow(state, h, backend_up, files) ==
  IF "df" \notin DOMAIN state
    THEN Raised(state, Exception("KeyError"), h, files)
    ELSE LET r == insight_generator_agent(h, Get(state, "use_llm", TRUE),
                    Get(state, "groq_api_key", None), Get(state, "model_name", DefaultModel),
                    backend_up)
         IN IF r.exc # NoExc
              THEN Returned(state, h, files)
              ELSE Returned(("insights" :> r.value) @@ state, h, files)

node_insight_generator(state, h, backend_up, files) ==
  IF "df" \notin DOMAIN state
    THEN Raised(state, Exception("KeyError"), h, files)
    ELSE LET r == insight_generator_agent(h, Get(state, "use_llm", TRUE),
                    Get(state, "groq_api_key", None), Get(state, "model_name", DefaultModel),
                    backend_up)
         IN IF r.exc # NoExc
              THEN Raised(state, r.exc, h, files)
              ELSE Returned(("insights" :> r.value) @@ state, h, files)

node_visualization(state, h, files) ==
  IF "df" \notin DOMAIN state
    THEN Raised(state, Exception("KeyError"), h, files)
    ELSE LET r == viz_generator_agent(h, Get(state, "output_dir", "output/visuals"), TRUE, files)
         IN IF r.exc # NoExc
              THEN Raised(state, r.exc, h, r.files)
              ELSE Returned(("visuals" :> r.value) @@ state, h, r.files)

\* node_report_generator storing the path under the key "visuals"
node_report_generator_wrongkey(state, h, pdf_ok, files) ==
  IF {"summary", "insights", "visuals"} \subseteq DOMAIN state
    THEN LET pdf_path == PathJoin(Get(state, "output_dir", "output"), PdfName)
             r == report_generator_agent(state["summary"], state["insights"],
                                         state["visuals"], pdf_path, pdf_ok, files)
         IN IF r.exc # NoExc
              THEN Raised(state, r.exc, h, r.files)
              ELSE Returned(("visuals" :> r.value) @@ state, h, r.files)
    ELSE Raised(state, Exception("KeyError"), h, files)

node_report_generator(state, h, pdf_ok, files) ==
  IF {"summary", "insights", "visuals"} \subseteq DOMAIN state
    THEN LET pdf_path == PathJoin(Get(state, "output_dir", "output"), PdfName)
             r == report_generator_agent(state["summary"], state["insights"],
                                         state["visuals"], pdf_path, pdf_ok, files)
         IN IF r.exc # NoExc
              THEN Raised(state, r.exc, h, r.files)
              ELSE Returned(("report_path" :> r.value) @@ state, h, r.files)
    ELSE Raised(state, Exception("KeyError"), h, files)

\* ------------------------------------------------------------- the graph
Nodes == {"data_parser", "insight_generator", "visualization", "report_generator"}

\* the edges with insight_generator and visualization exchanged
Edges_swapped ==
  {<<"data_parser", "visualization">>, <<"visualization", "insight_generator">>,
   <<"insight_generator", "report_generator">>, <<"report_generator", END>>}

\* the edges with the edge into insight_generator left out
Edges_skip_insight ==
  {<<"data_parser", "visualization">>,
   <<"visualization", "report_generator">>, <<"report_generator", END>>}

\* the edges with visualization wired straight to END
Edges_skip_report ==
  {<<"data_parser", "insight_generator">>, <<"insight_generator", "visualization">>,
   <<"visualization", END>>}

Edges ==
  {<<"data_parser", "insight_generator">>, <<"insight_generator", "visualization">>,
   <<"visualization", "report_generator">>, <<"report_generator", END>>}

EntryPoint == "data_parser"

build_analysis_graph == [nodes |-> Nodes, edges |-> Edges, entry |-> EntryPoint]

\* compile(): the entry point and every edge end name a node (or END), and
\* no node has two ways out
Validate(g) ==
  /\ g.entry \in g.nodes
  /\ \A e \in g.edges : e[1] \in g.nodes /\ e[2] \in g.nodes \cup {END}
  /\ \A e1, e2 \in g.edges : e1[1] = e2[1] => e1 = e2

Successor(g, n) ==
  IF \E e \in g.edges : e[1] = n
    THEN (CHOOSE e \in g.edges : e[1] = n)[2]
    ELSE END

\* the stages in the order the edges chain them from n on
RECURSIVE Chain(_, _, _)
Chain(g, n, fuel) ==
  IF n = END \/ fuel = 0 THEN <<>>
  ELSE <<n>> \o Chain(g, Successor(g, n), fuel - 1)

\* the key each stage owns
OutputField(stage) ==
  CASE stage = "data_parser" -> "summary"
    [] stage = "insight_generator" -> "insights"
    [] stage = "visualization" -> "visuals"
    [] stage = "report_generator" -> "report_path"

\* the initial state dict of run_langgraph_pipeline
InitialState(df, output_dir, use_llm, model_name, groq_api_key) ==
  [df |-> df, output_dir |-> output_dir, use_llm |-> use_llm,
   groq_api_key |-> groq_api_key, model_name |-> model_name]

\* a node's returned dict written over the state: a key of AnalysisState it
\* holds replaces the state's value, the other keys stay
Merge(state, update) ==
  [k \in DOMAIN state \cup (DOMAIN update \cap AnalysisState) |->
     IF k \in DOMAIN update THEN update[k] ELSE state[k]]

\* -------------------------------------------------------------- the state
VARIABLES
  input,        \* the arguments of run_langgraph_pipeline (data: the dataset as passed)
  backend_up,   \* whether the LLM backend can be reached
  pdf_ok,       \* whether the report can be rendered and written
  heap,         \* the caller's dataset object, as it is now
  fs,           \* the paths that exist on disk
  run,          \* the number of the current call of run_langgraph_pipeline
  pc,           \* "idle", "built", "compiled", "running", "completed", "failed"
  graph,        \* the StateGraph under construction
  plan,         \* the compiled runner: the stages in edge-chain order
  cur,          \* the stage to run next (END after the last)
  ctx,          \* the state dict threaded through the stages
  trace,        \* the stages started in this run, in order
  calls,        \* the collaborator calls of this run and how each ended
  final_state,  \* what runner.invoke returned to the caller
  error,        \* the exception that reached the caller
  results       \* the outcomes of the runs before this one

vars ==
  <<input, backend_up, pdf_ok, heap, fs, run, pc, graph, plan, cur, ctx, trace,
    calls, final_state, error, results>>

EmptyGraph == [nodes |-> {}, edges |-> {}, entry |-> END]
EmptyDict == <<>>
OutputDirs == {"output", ""}
ApiKeys == {None, "gsk-key"}

Init ==
  /\ input \in [data : Datasets(MaxCols), output_dir : OutputDirs, use_llm : BOOLEAN,
                groq_api_key : ApiKeys, model_name : {DefaultModel}]
  /\ backend_up \in BOOLEAN
  /\ pdf_ok \in BOOLEAN
  /\ heap = input.data
  /\ fs \in {{CsvPath}, {CsvPath, "output"}}
  /\ run = 1
  /\ pc = "idle"
  /\ graph = EmptyGraph
  /\ plan = <<>>
  /\ cur = END
  /\ ctx = EmptyDict
  /\ trace = <<>>
  /\ calls = <<>>
  /\ final_state = EmptyDict
  /\ error = NoExc
  /\ results = <<>>

\* graph = build_analysis_graph()
BuildGraph ==
  /\ pc = "idle"
  /\ graph' = build_analysis_graph
  /\ pc' = "built"
  /\ UNCHANGED <<input, backend_up, pdf_ok, heap, fs, run, plan, cur, ctx, trace,
                 calls, final_state, error, results>>

\* runner = graph.compile()
Compile ==
  /\ pc = "built"
  /\ Validate(graph)
  /\ plan' = Chain(graph, graph.entry, Cardinality(graph.nodes))
  /\ pc' = "compiled"
  /\ UNCHANGED <<input, backend_up, pdf_ok, heap, fs, run, graph, cur, ctx, trace,
                 calls, final_state, error, results>>

\* state = {...}; runner.invoke(state) takes the dict in and goes to the entry point
Invoke ==
  /\ pc = "compiled"
  /\ ctx' = InitialState(DfRef, input.output_dir, input.use_llm, input.model_name,
                         input.groq_api_key)
  /\ cur' = graph.entry
  /\ pc' = "running"
  /\ UNCHANGED <<input, backend_up, pdf_ok, heap, fs, run, graph, plan, trace,
                 calls, final_state, error, results>>

\* what the runner does with a node's result: on a return the dict is merged
\* and the edge followed; on an exception the run stops and it reaches the caller
Execute(stage, res) ==
  /\ trace' = Append(trace, stage)
  /\ heap' = res.heap
  /\ fs' = res.files
  /\ IF res.exc = NoExc
       THEN /\ ctx' = Merge(ctx, res.out)
            /\ cur' = Successor(graph, stage)
            /\ pc' = "running"
            /\ error' = error
       ELSE /\ ctx' = ctx
            /\ cur' = stage
            /\ pc' = "failed"
            /\ error' = res.exc
  /\ UNCHANGED <<input, backend_up, pdf_ok, run, graph, plan, final_state, results>>

Call(stage, r) ==
  [stage |-> stage, raised |-> r.exc # NoExc, exc |-> r.exc, value |-> r.value]

NodeDataParser ==
  /\ pc = "running" /\ cur = "data_parser"
  /\ Execute("data_parser", node_data_parser(ctx, heap, fs))
  /\ calls' = IF "df" \in DOMAIN ctx
                THEN Append(calls, Call("data_parser", data_parser_agent(heap, fs)))
                ELSE calls

NodeInsightGenerator ==
  /\ pc = "running" /\ cur = "insight_generator"
  /\ Execute("insight_generator", node_insight_generator(ctx, heap, backend_up, fs))
  /\ calls' = IF "df" \in DOMAIN ctx
                THEN Append(calls, Call("insight_generator",
                       insight_generator_agent(heap, Get(ctx, "use_llm", TRUE),
                         Get(ctx, "groq_api_key", None), Get(ctx, "model_name", DefaultModel),
                         backend_up)))
                ELSE calls

NodeVisualization ==
  /\ pc = "running" /\ cur = "visualization"
  /\ Execute("visualization", node_visualization(ctx, heap, fs))
  /\ calls' = IF "df" \in DOMAIN ctx
                THEN Append(calls, Call("visualization",
                       viz_generator_agent(heap, Get(ctx, "output_dir", "output/visuals"), TRUE, fs)))
                ELSE calls

NodeReportGenerator ==
  /\ pc = "running" /\ cur = "report_generator"
  /\ Execute("report_generator", node_report_generator(ctx, heap, pdf_ok, fs))
  /\ calls' = IF {"summary", "insights", "visuals"} \subseteq DOMAIN ctx
                THEN Append(calls, Call("report_generator",
                       report_generator_agent(ctx["summary"], ctx["insights"], ctx["visuals"],
                         PathJoin(Get(ctx, "output_dir", "output"), PdfName), pdf_ok, fs)))
                ELSE calls

\* END is reached: final_state = runner.invoke(state); return final_state
Finish ==
  /\ pc = "running" /\ cur = END
  /\ final_state' = ctx
  /\ pc' = "completed"
  /\ UNCHANGED <<input, backend_up, pdf_ok, heap, fs, run, graph, plan, cur, ctx, trace,
                 calls, error, results>>

\* how the current run ended
Outcome ==
  [outcome |-> pc, stage |-> cur, trace |-> trace, ctx |-> ctx, error |-> error,
   data |-> heap]

\* the caller calls run_langgraph_pipeline again with the same arguments
NextRun ==
  /\ pc \in {"completed", "failed"}
  /\ run < MaxRuns
  /\ results' = Append(results, Outcome)
  /\ run' = run + 1
  /\ pc' = "idle"
  /\ graph' = EmptyGraph
  /\ plan' = <<>>
  /\ cur' = END
  /\ ctx' = EmptyDict
  /\ trace' = <<>>
  /\ calls' = <<>>
  /\ final_state' = EmptyDict
  /\ error' = NoExc
  /\ UNCHANGED <<input, backend_up, pdf_ok, heap, fs>>

Next ==
  \/ BuildGraph
  \/ Compile
  \/ Invoke
  \/ NodeDataParser
  \/ NodeInsightGenerator
  \/ NodeVisualization
  \/ NodeReportGenerator
  \/ Finish
  \/ NextRun

Spec == Init /\ [][Next]_vars

\* ------------------------------------------------------------ properties
ChainOrder == <<"data_parser", "insight_generator", "visualization", "report_generator">>
InitialFields == {"df", "output_dir", "use_llm", "groq_api_key", "model_name"}
StageFields == {"summary", "insights", "visuals", "report_path"}
IsPrefix(s, t) == Len(s) <= Len(t) /\ s = SubSeq(t, 1, Len(s))
OutputsOf(stages) == {OutputField(stages[j]) : j \in DOMAIN stages}
Terminal == pc \in {"completed", "failed"}

\* C1: the graph is a valid single chain, so compile() succeeds and gives
\* the plan data_parser, insight_generator, visualization, report_generator;
\* the stages started in a run are always a prefix of that order (each at
\* most once, none out of turn), the next stage is the one after the last
\* started, and it starts only with every earlier stage's output in the
\* Context; END is reached only after all four.
C1_ChainOrder ==
  /\ (pc = "built" => Validate(graph))
  /\ (pc \in {"compiled", "running", "completed", "failed"} => plan = ChainOrder)
  /\ IsPrefix(trace, ChainOrder)
  /\ (pc = "running" /\ cur # END =>
        /\ Len(trace) < Len(ChainOrder)
        /\ cur = ChainOrder[Len(trace) + 1]
        /\ OutputsOf(trace) \subseteq DOMAIN ctx)
  /\ (pc \in {"running", "completed"} /\ cur = END => trace = ChainOrder)

C1_Witness == pc = "completed" /\ trace = ChainOrder /\ plan = ChainOrder

\* C2: if the collaborator of stage k raised, then it is the last call of
\* the run (no later stage runs, no retry), the run has failed at stage k,
\* stages 1..k-1 were each called once and returned, and the Context holds
\* the initial fields and the output fields of stages 1..k-1 only.
C2_FailFast ==
  \A k \in DOMAIN calls :
    calls[k].raised =>
      /\ k = Len(calls)
      /\ pc = "failed"
      /\ cur = ChainOrder[k]
      /\ [j \in DOMAIN calls |-> calls[j].stage] = SubSeq(ChainOrder, 1, k)
      /\ trace = SubSeq(ChainOrder, 1, k)
      /\ \A j \in 1..(k - 1) : ~calls[j].raised
      /\ DOMAIN ctx = InitialFields \cup OutputsOf(SubSeq(ChainOrder, 1, k - 1))
      /\ final_state = EmptyDict

C2_Witness ==
  /\ pc = "failed" /\ cur = "report_generator"
  /\ Len(calls) = 4 /\ calls[4].raised
  /\ DOMAIN ctx = InitialFields \cup {"summary", "insights", "visuals"}

\* C3 as stated: the error the caller gets is a StageExecutionError tagged
\* with the failing stage's name and carrying the collaborator's exception.
C3_Wrapped ==
  pc = "failed" =>
    /\ error.type = "StageExecutionError"
    /\ error.stage = cur
    /\ error.cause = calls[Len(calls)].exc.type

\* C3 amended: the error the caller gets is the very exception the failing
\* stage's collaborator raised, not wrapped and with no stage name on it.
C3_Unwrapped ==
  pc = "failed" =>
    /\ calls # <<>> /\ calls[Len(calls)].raised
    /\ error = calls[Len(calls)].exc
    /\ error.type # "StageExecutionError"
    /\ error.stage = NoStage /\ error.cause = NoCause

C3_Witness ==
  /\ pc = "failed" /\ cur = "data_parser"
  /\ error = Exception("FileNotFoundError")

\* C4: when all four stages succeed, the Context returned holds exactly the
\* five initial fields, with the values passed, and the four stage fields,
\* each with the value the (last) collaborator call of its stage produced.
C4_FinalContext ==
  pc = "completed" =>
    /\ DOMAIN final_state = InitialFields \cup StageFields
    /\ final_state["df"] = DfRef /\ heap = input.data
    /\ final_state["output_dir"] = input.output_dir
    /\ final_state["use_llm"] = input.use_llm
    /\ final_state["groq_api_key"] = input.groq_api_key
    /\ final_state["model_name"] = input.model_name
    /\ \A i \in DOMAIN calls :
         (\A j \in DOMAIN calls : j > i => calls[j].stage # calls[i].stage)
           => final_state[OutputField(calls[i].stage)] = calls[i].value
    /\ OutputsOf([j \in DOMAIN calls |-> calls[j].stage]) = StageFields

C4_Witness ==
  /\ pc = "completed"
  /\ Cardinality(NumericCols(input.data.cols)) = 1
  /\ final_state["report_path"] = "output/data_analysis_report.pdf"
  /\ DOMAIN final_state["visuals"].visualizations =
       {"correlation_heatmap", "1_distribution", "pairplot"}

\* C5: a run ends either with a Context returned in which summary, insights,
\* visuals and report_path are all present and no error, or with one error
\* and nothing returned; no Context lacking one of the four is returned.
C5_NoPartialSuccess ==
  /\ (pc = "completed" => error = NoExc /\ StageFields \subseteq DOMAIN final_state)
  /\ (pc = "failed" => error # NoExc /\ final_state = EmptyDict)
  /\ (final_state # EmptyDict => pc = "completed")
  /\ (error # NoExc => pc = "failed")

C5_Witness ==
  /\ pc = "failed" /\ cur = "visualization"
  /\ {"summary", "insights"} \subseteq DOMAIN ctx
  /\ final_state = EmptyDict /\ error # NoExc

\* C6: when df is a path that does not exist, a run that has started its
\* first stage has failed there with the parser's not-found error, no other
\* stage has run, and insights, visuals and report_path are not in the Context.
C6_MissingPath ==
  (input.data.kind = "path" /\ input.data.path \notin fs /\ trace # <<>>) =>
    /\ pc = "failed" /\ cur = "data_parser"
    /\ trace = <<"data_parser">>
    /\ error.type = "FileNotFoundError"
    /\ DOMAIN ctx \cap {"insights", "visuals", "report_path"} = {}

C6_Witness ==
  /\ input.data.kind = "path" /\ input.data.path = MissingPath
  /\ pc = "failed" /\ cur = "data_parser"

\* C7: when the table has no numeric column, the visualization stage, once
\* run, has not failed: visuals holds the marker (the message and an empty
\* visualizations mapping) and the stage after it is report_generator.
C7_NoNumericColumns ==
  (input.data.kind = "frame" /\ NumericCols(input.data.cols) = {} /\ Len(trace) >= 3) =>
    /\ trace[3] = "visualization"
    /\ ~(pc = "failed" /\ cur = "visualization")
    /\ "visuals" \in DOMAIN ctx
    /\ ctx["visuals"].message = "No numeric columns found."
    /\ DOMAIN ctx["visuals"].visualizations = {}
    /\ (Len(trace) = 3 => pc = "running" /\ cur = "report_generator")
    /\ (Len(trace) > 3 => trace[4] = "report_generator")

C7_Witness ==
  /\ input.data.kind = "frame" /\ NumericCols(input.data.cols) = {}
  /\ Len(input.data.cols) > 0
  /\ Len(trace) = 4 /\ trace[4] = "report_generator"
  /\ DOMAIN ctx["visuals"].visualizations = {}

\* one step that runs a stage, seen from the Context and the dataset
C8_StageStep ==
  Len(trace') = Len(trace) + 1 =>
    LET own == OutputField(trace'[Len(trace')])
    IN /\ DOMAIN ctx' \subseteq DOMAIN ctx \cup {own}
       /\ \A f \in DOMAIN ctx \ {own} : f \in DOMAIN ctx' /\ ctx'[f] = ctx[f]
       /\ heap' = heap
\* C8: a stage execution adds or overwrites its own output field only: every
\* other field of the Context keeps its value, the caller's dataset object
\* is left as it was, and within a run no field ever leaves the Context.
C8_Frame ==
  [][/\ C8_StageStep
     /\ (run' = run => DOMAIN ctx \subseteq DOMAIN ctx')]_vars

C8_Witness ==
  /\ pc = "completed"
  /\ \E i \in DOMAIN input.data.cols :
       /\ input.data.cols[i].dtype = "object"
       /\ CleanColumn(input.data.cols[i]) # input.data.cols[i]

\* two runs that ended alike
SameOutcome(a, b) ==
  /\ a.outcome = b.outcome
  /\ a.stage = b.stage
  /\ a.trace = b.trace
  /\ a.error = b.error
  /\ DOMAIN a.ctx = DOMAIN b.ctx
  /\ \A f \in DOMAIN a.ctx : a.ctx[f] = b.ctx[f]
  /\ a.data = b.data
\* C9: every later run with the same arguments ends as each earlier one
\* did: same outcome, same stage reached, same stages started, same error,
\* a Context equal in every field, and the dataset as the caller passed it.
C9_Rerun ==
  Terminal =>
    /\ \A i \in DOMAIN results : SameOutcome(results[i], Outcome)
    /\ heap = input.data

C9_Witness ==
  /\ run = MaxRuns /\ pc = "completed" /\ Len(results) = MaxRuns - 1
  /\ "output" \in fs /\ NumericCols(input.data.cols) # {}
  /\ results[1].outcome = "completed"

\* the keys a stage looks up by state[k]
Requires(stage) ==
  IF stage = "report_generator" THEN {"summary", "insights", "visuals"} ELSE {"df"}
\* C10: a stage about to start finds every field it looks up by state[k] in
\* the Context (df for the first three stages; summary, insights and visuals
\* for report_generator), and no run fails with a KeyError.
C10_FieldsPresent ==
  /\ (pc = "running" /\ cur # END => Requires(cur) \subseteq DOMAIN ctx)
  /\ error.type # "KeyError"

C10_Witness ==
  /\ pc = "running" /\ cur = "report_generator"
  /\ {"summary", "insights", "visuals"} \subseteq DOMAIN ctx
====
